---- MODULE Spec2Model ----
(***************************************************************************)
(* Model of k8s/locust.py: the ChatAppUser simulated user.  Each session   *)
(* runs on_start once (login) and then the harness loop: pick a task from  *)
(* the weighted task list, run it, wait, repeat.  A blocking HTTP call is  *)
(* two steps (request issued, response received) so that sessions          *)
(* interleave exactly where the greenlets of the harness can switch.       *)
(***************************************************************************)
EXTENDS Naturals, Sequences, FiniteSets, TLC

\* Number of concurrently simulated users.
NumSessions == 2

Sessions == 1..NumSessions

VARIABLES
    USERS,       \* module-level list of test accounts
    chat_ids,    \* class attribute ChatAppUser.chat_ids
    pc,          \* per session: position in its lifecycle
    user,        \* per session: self.user
    partner,     \* per session: self.partner
    verify,      \* per session: self.client.verify
    headers,     \* per session: self.client.headers
    inflight,    \* per session: the HTTP request currently awaiting a response
    loginResp,   \* per session: the response on_start received from POST /login
    task_queue,  \* per session: tasks picked by the harness, not yet run
    lastStatus   \* per session: outcome of the most recent task request

vars == <<USERS, chat_ids, pc, user, partner, verify, headers, inflight,
          loginResp, task_queue, lastStatus>>

----------------------------------------------------------------------------
\* Static data

USERS_init ==
    << [email |-> "shoeb123@gmail.com", password |-> "Shoebshoeb1@", username |-> "shoeb123"],
       [email |-> "zaid123.com",        password |-> "Shoebshoeb1@", username |-> "zaid"] >>

chat_ids_init ==
    << "68b3db1df23915a857fcadab",
       "7fa9db12e29345a123b9fdef",
       "5bc7cd8aee993a3b5679c8aa" >>

\* @task(n) decorators, in declaration order.
TaskNames == << "get_messages", "send_message", "health" >>

TaskWeight == [get_messages |-> 6, send_message |-> 3, health |-> 5]

RECURSIVE Repeat(_, _)
Repeat(x, n) == IF n = 0 THEN << >> ELSE << x >> \o Repeat(x, n - 1)

RECURSIVE Expand(_)
Expand(names) ==
    IF names = << >> THEN << >>
    ELSE Repeat(Head(names), TaskWeight[Head(names)]) \o Expand(Tail(names))

\* The harness expands the decorated methods into a list in which each task
\* appears weight times, and picks from it uniformly.
tasks == Expand(TaskNames)

----------------------------------------------------------------------------
\* Python values

None == [type |-> "NoneType"]

Str(s) == [type |-> "str", value |-> s]

\* f"{v}" : str() of the value.
Format(v) == IF v.type = "NoneType" THEN "None" ELSE v.value

\* random.choice(seq)
Choices(seq) == { seq[i] : i \in 1..Len(seq) }

\* dict.get(key) on a JSON object
Get(body, key) == IF key \in DOMAIN body THEN body[key] ELSE None

Unset == [unset |-> TRUE]

NoReq == [kind |-> "none"]

NoResp == [kind |-> "none"]

\* Headers of a fresh HTTP session: no Authorization entry.
DefaultHeaders == [UserAgent |-> "python-requests"]

----------------------------------------------------------------------------
\* Environment: what the server under test may answer

Tokens == { "abc123", "xyz789" }

EmptyBody == [x \in {} |-> None]

\* A login response is either a JSON object (with or without a token field)
\* or something resp.json() cannot decode.
LoginResponses ==
    { [kind |-> "json", body |-> [token |-> Str(t)]] : t \in Tokens }
    \cup { [kind |-> "json", body |-> EmptyBody] }
    \cup { [kind |-> "undecodable"] }

\* Outcome of a task request: success, non-success status, timeout.
Statuses == { "ok", "error", "timeout" }

Failures == { "error", "timeout" }

NoStatus == "none"

----------------------------------------------------------------------------
\* on_start

\* [u for u in USERS if u["email"] != self.user["email"]]
PartnerCandidates_eq(u) ==
    SelectSeq(USERS, LAMBDA v : v.email = u.email)

PartnerCandidates(u) ==
    SelectSeq(USERS, LAMBDA v : v.email # u.email)

LoginRequest(s, u) ==
    [kind    |-> "login",
     method  |-> "POST",
     path    |-> "/login",
     headers |-> headers[s],
     json    |-> [email |-> u.email, password |-> u.password]]

\* First half of on_start, up to the blocking POST /login.
on_start_eager(s) ==
    /\ pc[s] = "new"
    /\ verify' = [verify EXCEPT ![s] = FALSE]
    /\ \E u \in Choices(USERS) :
         /\ user' = [user EXCEPT ![s] = u]
         /\ IF Len(PartnerCandidates(u)) = 0
            THEN /\ pc' = [pc EXCEPT ![s] = "crashed"]
                 /\ UNCHANGED <<partner, inflight>>
            ELSE /\ partner' = [partner EXCEPT ![s] = PartnerCandidates(u)[1]]
                 /\ inflight' = [inflight EXCEPT ![s] = LoginRequest(s, u)]
                 /\ pc' = [pc EXCEPT ![s] = "ready"]
    /\ UNCHANGED <<USERS, chat_ids, headers, loginResp, task_queue, lastStatus>>

on_start(s) ==
    /\ pc[s] = "new"
    /\ verify' = [verify EXCEPT ![s] = FALSE]
    /\ \E u \in Choices(USERS) :
         /\ user' = [user EXCEPT ![s] = u]
         /\ IF Len(PartnerCandidates(u)) = 0
            THEN /\ pc' = [pc EXCEPT ![s] = "crashed"]
                 /\ UNCHANGED <<partner, inflight>>
            ELSE /\ partner' = [partner EXCEPT ![s] = PartnerCandidates(u)[1]]
                 /\ inflight' = [inflight EXCEPT ![s] = LoginRequest(s, u)]
                 /\ pc' = [pc EXCEPT ![s] = "login"]
    /\ UNCHANGED <<USERS, chat_ids, headers, loginResp, task_queue, lastStatus>>

AuthHeaders_nospace(token) == [Authorization |-> "Bearer" \o Format(token)]

\* {"Authorization": f"Bearer {token}"}
AuthHeaders(token) == [Authorization |-> "Bearer " \o Format(token)]

\* Second half of on_start: the login response arrives.
on_start_login_shared(s) ==
    /\ pc[s] = "login"
    /\ \E r \in LoginResponses :
         /\ loginResp' = [loginResp EXCEPT ![s] = r]
         /\ inflight' = [inflight EXCEPT ![s] = NoReq]
         /\ IF r.kind = "undecodable"
            THEN /\ pc' = [pc EXCEPT ![s] = "crashed"]
                 /\ UNCHANGED headers
            ELSE /\ headers' = [t \in Sessions |-> AuthHeaders(Get(r.body, "token"))]
                 /\ pc' = [pc EXCEPT ![s] = "ready"]
    /\ UNCHANGED <<USERS, chat_ids, user, partner, verify, task_queue, lastStatus>>

on_start_login(s) ==
    /\ pc[s] = "login"
    /\ \E r \in LoginResponses :
         /\ loginResp' = [loginResp EXCEPT ![s] = r]
         /\ inflight' = [inflight EXCEPT ![s] = NoReq]
         /\ IF r.kind = "undecodable"
            THEN \* resp.json() raises; on_start propagates and the user dies
                 /\ pc' = [pc EXCEPT ![s] = "crashed"]
                 /\ UNCHANGED headers
            ELSE /\ headers' = [headers EXCEPT ![s] = AuthHeaders(Get(r.body, "token"))]
                 /\ pc' = [pc EXCEPT ![s] = "ready"]
    /\ UNCHANGED <<USERS, chat_ids, user, partner, verify, task_queue, lastStatus>>

----------------------------------------------------------------------------
\* Harness loop

\* random.choice over the weighted task list.
schedule_task(s) ==
    /\ pc[s] = "ready"
    /\ task_queue[s] = << >>
    /\ \E i \in 1..Len(tasks) :
         task_queue' = [task_queue EXCEPT ![s] = Append(@, tasks[i])]
    /\ pc' = [pc EXCEPT ![s] = "scheduled"]
    /\ UNCHANGED <<USERS, chat_ids, user, partner, verify, headers, inflight,
                   loginResp, lastStatus>>

ChatIdChoices_stale == Choices(chat_ids) \cup { "000000000000000000000000" }

\* random.choice(self.chat_ids)
ChatIdChoices == Choices(chat_ids)

get_messages(s) ==
    /\ pc[s] = "scheduled"
    /\ Head(task_queue[s]) = "get_messages"
    /\ \E chat_id \in ChatIdChoices :
         inflight' = [inflight EXCEPT ![s] =
                        [kind    |-> "get_messages",
                         method  |-> "GET",
                         path    |-> "/api/messages/" \o chat_id,
                         headers |-> headers[s]]]
    /\ pc' = [pc EXCEPT ![s] = "request"]
    /\ task_queue' = [task_queue EXCEPT ![s] = Tail(@)]
    /\ UNCHANGED <<USERS, chat_ids, user, partner, verify, headers, loginResp, lastStatus>>

SendBody_swapped(s) ==
    [from |-> partner[s].username,
     to   |-> user[s].username,
     msg  |-> "Hello " \o partner[s].username \o " from " \o user[s].username \o "!"]

SendBody(s) ==
    [from |-> user[s].username,
     to   |-> partner[s].username,
     msg  |-> "Hello " \o partner[s].username \o " from " \o user[s].username \o "!"]

send_message(s) ==
    /\ pc[s] = "scheduled"
    /\ Head(task_queue[s]) = "send_message"
    /\ \E chat_id \in ChatIdChoices :
         inflight' = [inflight EXCEPT ![s] =
                        [kind    |-> "send_message",
                         method  |-> "POST",
                         path    |-> "/api/messages/send/" \o chat_id,
                         headers |-> headers[s],
                         json    |-> SendBody(s)]]
    /\ pc' = [pc EXCEPT ![s] = "request"]
    /\ task_queue' = [task_queue EXCEPT ![s] = Tail(@)]
    /\ UNCHANGED <<USERS, chat_ids, user, partner, verify, headers, loginResp, lastStatus>>

health_resetting(s) ==
    /\ pc[s] = "scheduled"
    /\ Head(task_queue[s]) = "health"
    /\ headers' = [headers EXCEPT ![s] = DefaultHeaders]
    /\ inflight' = [inflight EXCEPT ![s] =
                      [kind    |-> "health",
                       method  |-> "GET",
                       path    |-> "/health",
                       headers |-> headers[s]]]
    /\ pc' = [pc EXCEPT ![s] = "request"]
    /\ task_queue' = [task_queue EXCEPT ![s] = Tail(@)]
    /\ UNCHANGED <<USERS, chat_ids, user, partner, verify, loginResp, lastStatus>>

health(s) ==
    /\ pc[s] = "scheduled"
    /\ Head(task_queue[s]) = "health"
    /\ inflight' = [inflight EXCEPT ![s] =
                      [kind    |-> "health",
                       method  |-> "GET",
                       path    |-> "/health",
                       headers |-> headers[s]]]
    /\ pc' = [pc EXCEPT ![s] = "request"]
    /\ task_queue' = [task_queue EXCEPT ![s] = Tail(@)]
    /\ UNCHANGED <<USERS, chat_ids, user, partner, verify, headers, loginResp, lastStatus>>

task_return_retrying(s) ==
    /\ pc[s] = "request"
    /\ \E st \in Statuses :
         /\ lastStatus' = [lastStatus EXCEPT ![s] = st]
         /\ IF st \in Failures
            THEN UNCHANGED <<inflight, pc>>
            ELSE /\ inflight' = [inflight EXCEPT ![s] = NoReq]
                 /\ pc' = [pc EXCEPT ![s] = "waiting"]
    /\ UNCHANGED <<USERS, chat_ids, user, partner, verify, headers, loginResp, task_queue>>

\* The client call of a task returns: the response is ignored by the task,
\* whatever its status, and the task method ends.
task_return(s) ==
    /\ pc[s] = "request"
    /\ \E st \in Statuses : lastStatus' = [lastStatus EXCEPT ![s] = st]
    /\ inflight' = [inflight EXCEPT ![s] = NoReq]
    /\ pc' = [pc EXCEPT ![s] = "waiting"]
    /\ UNCHANGED <<USERS, chat_ids, user, partner, verify, headers, loginResp, task_queue>>

\* wait_time = between(1, 3) has elapsed.
wait_time(s) ==
    /\ pc[s] = "waiting"
    /\ pc' = [pc EXCEPT ![s] = "ready"]
    /\ lastStatus' = [lastStatus EXCEPT ![s] = NoStatus]
    /\ UNCHANGED <<USERS, chat_ids, user, partner, verify, headers, inflight,
                   loginResp, task_queue>>

\* The harness stops the user between two tasks.
stop(s) ==
    /\ pc[s] = "waiting"
    /\ pc' = [pc EXCEPT ![s] = "stopped"]
    /\ lastStatus' = [lastStatus EXCEPT ![s] = NoStatus]
    /\ UNCHANGED <<USERS, chat_ids, user, partner, verify, headers, inflight,
                   loginResp, task_queue>>

----------------------------------------------------------------------------
Init ==
    /\ USERS = USERS_init
    /\ chat_ids = chat_ids_init
    /\ pc = [s \in Sessions |-> "new"]
    /\ user = [s \in Sessions |-> Unset]
    /\ partner = [s \in Sessions |-> Unset]
    /\ verify = [s \in Sessions |-> TRUE]
    /\ headers = [s \in Sessions |-> DefaultHeaders]
    /\ inflight = [s \in Sessions |-> NoReq]
    /\ loginResp = [s \in Sessions |-> NoResp]
    /\ task_queue = [s \in Sessions |-> << >>]
    /\ lastStatus = [s \in Sessions |-> NoStatus]

Next ==
    \E s \in Sessions :
        \/ on_start(s)
        \/ on_start_login(s)
        \/ schedule_task(s)
        \/ get_messages(s)
        \/ send_message(s)
        \/ health(s)
        \/ task_return(s)
        \/ wait_time(s)
        \/ stop(s)

Spec == Init /\ [][Next]_vars

----------------------------------------------------------------------------
\* Properties

ActionKinds == { "get_messages", "send_message", "health" }

LoginCompleted(s) == loginResp[s].kind = "json"

LoginHasToken(s) == LoginCompleted(s) /\ "token" \in DOMAIN loginResp[s].body

LoginLacksToken(s) == LoginCompleted(s) /\ "token" \notin DOMAIN loginResp[s].body

InActionLoop(s) == pc[s] \in { "ready", "scheduled", "request", "waiting" }

\* C1: a session has an action request (get_messages, send_message, health)
\* outstanding only after its POST /login has returned.
C1_NoActionBeforeLogin ==
    \A s \in Sessions :
        (inflight[s].kind \in ActionKinds \/ task_queue[s] # << >>)
            => LoginCompleted(s)

C1_Witness ==
    \E s \in Sessions :
        /\ inflight[s].kind = "health"
        /\ LoginCompleted(s)

\* C2: the weighted task list realises the weights 6 / 3 / 1 out of a total
\* of 10, so a picked task has share weight/10 of the list.
ClaimedWeight == [get_messages |-> 6, send_message |-> 3, health |-> 1]

Occurrences(name) == Cardinality({ i \in 1..Len(tasks) : tasks[i] = name })

C2_WeightsSixThreeOne ==
    \A s \in Sessions :
        task_queue[s] # << >> =>
            LET a == Head(task_queue[s]) IN
                /\ Len(tasks) = 10
                /\ Occurrences(a) = ClaimedWeight[a]
                /\ Occurrences(a) * 10 = ClaimedWeight[a] * Len(tasks)

\* C3: a session whose login response has no token field never enters the
\* action loop and never has an action request outstanding.
C3_NoActionWithoutToken ==
    \A s \in Sessions :
        LoginLacksToken(s) =>
            /\ ~InActionLoop(s)
            /\ inflight[s].kind \notin ActionKinds

\* C4: once on_start has assigned the identity, the partner is the other
\* pool entry: emails differ, identity A gives partner B and conversely.
C4_PartnerDiffers ==
    \A s \in Sessions :
        user[s] # Unset =>
            /\ partner[s] # Unset
            /\ partner[s].email # user[s].email
            /\ (user[s] = USERS[1] => partner[s] = USERS[2])
            /\ (user[s] = USERS[2] => partner[s] = USERS[1])

C4_Witness ==
    /\ \E s \in Sessions : user[s] = USERS[1] /\ partner[s] = USERS[2]
    /\ \E s \in Sessions : user[s] = USERS[2] /\ partner[s] = USERS[1]

\* C5: the body of every send-message request has from = identity's
\* username, to = partner's username, and the two differ.
C5_SendBodyFromTo ==
    \A s \in Sessions :
        inflight[s].kind = "send_message" =>
            /\ inflight[s].json.from = user[s].username
            /\ inflight[s].json.to = partner[s].username
            /\ inflight[s].json.from # inflight[s].json.to

C5_Witness ==
    \E s \in Sessions :
        /\ inflight[s].kind = "send_message"
        /\ inflight[s].json.from = "zaid"
        /\ inflight[s].json.to = "shoeb123"

\* C6: when the session's own login returned token T, every action request
\* it issues carries the header Authorization: Bearer T.
C6_BearerOwnToken ==
    \A s \in Sessions :
        (inflight[s].kind \in ActionKinds /\ LoginHasToken(s)) =>
            /\ "Authorization" \in DOMAIN inflight[s].headers
            /\ inflight[s].headers["Authorization"]
                   = "Bearer " \o loginResp[s].body["token"].value

C6_Witness ==
    \E s, t \in Sessions :
        /\ inflight[s].kind \in ActionKinds
        /\ inflight[t].kind \in ActionKinds
        /\ inflight[s].headers = [Authorization |-> "Bearer abc123"]
        /\ inflight[t].headers = [Authorization |-> "Bearer xyz789"]

\* C7: after a failed action request (non-success status or timeout) the
\* session is still in the loop, pacing before its next pick, the failed
\* request is no longer outstanding, and the loop can go on.
C7_FailureNeitherFatalNorRetried ==
    \A s \in Sessions :
        lastStatus[s] \in Failures =>
            /\ pc[s] = "waiting"
            /\ inflight[s] = NoReq
            /\ task_queue[s] = << >>
            /\ ENABLED wait_time(s)

C7_Witness ==
    \E s, t \in Sessions :
        /\ lastStatus[s] = "timeout" /\ pc[s] = "waiting"
        /\ lastStatus[t] = "error" /\ pc[t] = "waiting"

\* What a session owns: identity, partner, token and request headers.
Owned(s) == << user[s], partner[s], loginResp[s], headers[s] >>

\* C8: a step taken by one session changes nothing another session owns,
\* and no step changes USERS or chat_ids.
C8_NoInterference ==
    [][ /\ USERS' = USERS
        /\ chat_ids' = chat_ids
        /\ \A s, t \in Sessions :
             (s # t /\ pc'[s] # pc[s]) => Owned(t)' = Owned(t) ]_vars

C8_Witness ==
    \E s, t \in Sessions :
        /\ s # t
        /\ pc[s] = "request" /\ pc[t] = "request"
        /\ user[s] # user[t]
        /\ headers[s] # headers[t]

\* C9: the conversation id in the path of every fetch and send request is
\* one of the three configured ids.
C9_ChatIdConfigured ==
    /\ Cardinality(Choices(chat_ids)) = 3
    /\ \A s \in Sessions :
        /\ inflight[s].kind = "get_messages" =>
             inflight[s].path \in { "/api/messages/" \o c : c \in Choices(chat_ids) }
        /\ inflight[s].kind = "send_message" =>
             inflight[s].path \in { "/api/messages/send/" \o c : c \in Choices(chat_ids) }

C9_Witness ==
    /\ \E s \in Sessions :
         /\ inflight[s].kind = "get_messages"
         /\ inflight[s].path = "/api/messages/" \o chat_ids[3]
    /\ \E s \in Sessions :
         /\ inflight[s].kind = "send_message"
         /\ inflight[s].path = "/api/messages/send/" \o chat_ids[1]

\* C10: from the end of on_start on, no step of the session changes its
\* identity, partner or headers.
C10_ActionsKeepSession ==
    [][ \A s \in Sessions :
          (InActionLoop(s) \/ pc[s] = "stopped") =>
              /\ user'[s] = user[s]
              /\ partner'[s] = partner[s]
              /\ headers'[s] = headers[s] ]_vars

C10_Witness ==
    \E s \in Sessions :
        /\ pc[s] = "stopped"
        /\ LoginCompleted(s)
        /\ headers[s] = AuthHeaders(Get(loginResp[s].body, "token"))
        /\ user[s] = USERS[1]

====
